---- MODULE Spec2Model ----
\* Model of chats.py: a question-answering assistant that matches a user
\* question against a knowledge base read from two line-oriented files and
\* answers from the stored answer, from a generative API, or with a refusal.
\*
\* Text is modelled as a sequence of characters; a character is a one-element
\* TLA+ string.  The Cyrillic literals of the source are transliterated one
\* letter to one ASCII letter (so lengths are kept).  The two code points
\* U+0130 and U+0307 are written "U+0130" and "U+0307".
EXTENDS Integers, Sequences, FiniteSets, TLC

VARIABLES
    files,       \* the file system: path -> state of the file at that path
    load_cache,  \* the lru_cache of load_qa_pairs, least recently used first
    api_cache,   \* the lru_cache of get_api_response, least recently used first
    trace,       \* history of the calls made so far, with what each one did
    edits,       \* number of external changes made to the files so far
    input,       \* arguments of a direct call of find_best_match_extended
    output       \* its result: <<>> before the call, <<result>> after it

vars == <<files, load_cache, api_cache, trace, edits, input, output>>

-----------------------------------------------------------------------------
\* Constants of the program (chats.py:14-22)

\* "Ty - assistent SKK. Otvecay kratko. Esli informacii net, skaji ob etom."
SYSTEM_PROMPT ==
    <<"T", "y", " ", "-", " ", "a", "s", "s", "i", "s", "t", "e", "n", "t", " ", "S",
    "K", "K", ".", " ", "O", "t", "v", "e", "c", "a", "y", " ", "k", "r", "a", "t",
    "k", "o", ".", " ", "E", "s", "l", "i", " ", "i", "n", "f", "o", "r", "m", "a",
    "c", "i", "i", " ", "n", "e", "t", ",", " ", "s", "k", "a", "j", "i", " ", "o",
    "b", " ", "e", "t", "o", "m", ".">>

\* "Izvinite, q ne nawel otveta na vaw vopros."
DEFAULT_RESPONSE ==
    <<"I", "z", "v", "i", "n", "i", "t", "e", ",", " ", "q", " ", "n", "e", " ", "n",
    "a", "w", "e", "l", " ", "o", "t", "v", "e", "t", "a", " ", "n", "a", " ", "v",
    "a", "w", " ", "v", "o", "p", "r", "o", "s", ".">>

\* 0.6 and 0.4 as exact fractions
SIMILARITY_GOOD == [num |-> 3, den |-> 5]

\* a partial threshold of 0.1
SIMILARITY_PARTIAL_low == [num |-> 1, den |-> 10]

SIMILARITY_PARTIAL == [num |-> 2, den |-> 5]

\* the early-exit threshold 0.95 of find_best_match_extended
PERFECT_MATCH == [num |-> 19, den |-> 20]

CACHE_SIZE == 256

\* "Pojaluysta, zadayte vopros." (ask_assistant, empty question)
EMPTY_QUESTION_RESPONSE ==
    <<"P", "o", "j", "a", "l", "u", "y", "s", "t", "a", ",", " ", "z", "a", "d", "a",
    "y", "t", "e", " ", "v", "o", "p", "r", "o", "s", ".">>

\* "Vozmojno, eto podhodqwiy otvet:\n\n" (generate_smart_response)
HEDGE_PREFIX ==
    <<"V", "o", "z", "m", "o", "j", "n", "o", ",", " ", "e", "t", "o", " ", "p", "o",
    "d", "h", "o", "d", "q", "w", "i", "y", " ", "o", "t", "v", "e", "t", ":", "\n",
    "\n">>

\* the literal pieces of the user message of generate_smart_response
MSG_QUESTION ==
    <<"V", "o", "p", "r", "o", "s", ":", " ">>

MSG_SIMILAR ==
    <<"\n", "P", "o", "h", "o", "j", "i", "y", " ", "v", "o", "p", "r", "o", "s", ":",
    " ">>

MSG_ANSWER ==
    <<"\n", "O", "t", "v", "e", "t", " ", "n", "a", " ", "p", "o", "h", "o", "j", "i",
    "y", " ", "v", "o", "p", "r", "o", "s", ":", " ">>

MSG_INSTRUCTION ==
    <<"\n", "\n", "D", "a", "y", "t", "e", " ", "k", "r", "a", "t", "k", "i", "y", " ",
    "o", "t", "v", "e", "t", " ", "n", "a", " ", "p", "e", "r", "v", "y", "y", " ",
    "v", "o", "p", "r", "o", "s", ",", " ", "i", "s", "p", "o", "l", "'", "z", "u",
    "q", " ", "v", "t", "o", "r", "o", "y", " ", "o", "t", "v", "e", "t", " ", "k",
    "a", "k", " ", "k", "o", "n", "t", "e", "k", "s", "t", ".">>

\* the greetings should_process refuses: "spasibo", "privet", "zdravstvuyte"
GREETINGS ==
    {<<"s", "p", "a", "s", "i", "b", "o">>,
     <<"p", "r", "i", "v", "e", "t">>,
     <<"z", "d", "r", "a", "v", "s", "t", "v", "u", "y", "t", "e">>}

-----------------------------------------------------------------------------
\* str methods

WHITESPACE == {" ", "\t", "\n", "\r"}

DIGITS == {"0", "1", "2", "3", "4", "5", "6", "7", "8", "9"}

UPPERCASE ==
    <<"A", "B", "C", "D", "E", "F", "G", "H", "I", "J", "K", "L", "M",
      "N", "O", "P", "Q", "R", "S", "T", "U", "V", "W", "X", "Y", "Z">>

LOWERCASE ==
    <<"a", "b", "c", "d", "e", "f", "g", "h", "i", "j", "k", "l", "m",
      "n", "o", "p", "q", "r", "s", "t", "u", "v", "w", "x", "y", "z">>

\* str.lower() of one character; U+0130 lower-cases to the two characters
\* U+0069 U+0307
lower_char(c) ==
    IF \E i \in 1..Len(UPPERCASE) : UPPERCASE[i] = c
    THEN <<LOWERCASE[CHOOSE i \in 1..Len(UPPERCASE) : UPPERCASE[i] = c]>>
    ELSE IF c = "U+0130" THEN <<"i", "U+0307">>
    ELSE <<c>>

RECURSIVE lower(_)
\* str.lower()
lower(s) ==
    IF s = <<>> THEN <<>> ELSE lower_char(Head(s)) \o lower(Tail(s))

RECURSIVE lstrip(_)
lstrip(s) ==
    IF s # <<>> /\ Head(s) \in WHITESPACE THEN lstrip(Tail(s)) ELSE s

RECURSIVE rstrip(_)
rstrip(s) ==
    IF s # <<>> /\ s[Len(s)] \in WHITESPACE
    THEN rstrip(SubSeq(s, 1, Len(s) - 1))
    ELSE s

\* str.strip()
strip(s) == rstrip(lstrip(s))

\* s[:n]
prefix(s, n) == SubSeq(s, 1, IF Len(s) < n THEN Len(s) ELSE n)

\* s.find(sub) for a two-character sub, 1-based; 0 when sub does not occur
find2(s, c1, c2) ==
    IF \E i \in 1..(Len(s) - 1) : s[i] = c1 /\ s[i + 1] = c2
    THEN CHOOSE i \in 1..(Len(s) - 1) :
            /\ s[i] = c1 /\ s[i + 1] = c2
            /\ \A k \in 1..(i - 1) : ~(s[k] = c1 /\ s[k + 1] = c2)
    ELSE 0

-----------------------------------------------------------------------------
\* Helper functions of the program

\* clean_response looking for ". " in the first four characters only
clean_response_first_four(answer) ==
    IF /\ answer # <<>>
       /\ answer[1] \in DIGITS
       /\ find2(prefix(answer, 4), ".", " ") # 0
    THEN SubSeq(answer, find2(answer, ".", " ") + 2, Len(answer))
    ELSE answer

\* clean_response: drops the text up to and including the first ". " when the
\* answer starts with a digit and ". " occurs in its first five characters
clean_response(answer) ==
    IF /\ answer # <<>>
       /\ answer[1] \in DIGITS
       /\ find2(prefix(answer, 5), ".", " ") # 0
    THEN SubSeq(answer, find2(answer, ".", " ") + 2, Len(answer))
    ELSE answer

\* should_process accepting questions of three characters
should_process_three(question) ==
    LET q == lower(strip(question))
    IN  Len(q) >= 3 /\ q \notin GREETINGS

\* should_process: the relevance pre-filter
should_process(question) ==
    LET q == lower(strip(question))
    IN  Len(q) > 3 /\ q \notin GREETINGS

-----------------------------------------------------------------------------
\* The knowledge loader

Missing == [kind |-> "missing", lines |-> <<>>]

Unreadable == [kind |-> "unreadable", lines |-> <<>>]

Undecodable == [kind |-> "undecodable", lines |-> <<>>]

\* a readable UTF-8 file holding the given lines (without their terminators)
TextFile(lines) == [kind |-> "text", lines |-> lines]

\* iterating over an open text file yields each line with its terminator
readlines(f) == [i \in 1..Len(f.lines) |-> f.lines[i] \o <<"\n">>]

Returned(pairs) == [kind |-> "return", pairs |-> pairs, exc |-> ""]

RaisedLoad(exc) == [kind |-> "raise", pairs |-> <<>>, exc |-> exc]

NonBlank(line) == strip(line) # <<>>

zip(xs, ys) ==
    [i \in 1..(IF Len(xs) < Len(ys) THEN Len(xs) ELSE Len(ys)) |-> <<xs[i], ys[i]>>]

\* load_qa_pairs keeping the blank lines of the answers file
load_qa_pairs_blank_answers(fs, questions_path, answers_path) ==
    LET f_q == fs[questions_path]
        f_a == fs[answers_path]
        q_lines == SelectSeq(readlines(f_q), NonBlank)
        a_lines == readlines(f_a)
        questions == [i \in 1..Len(q_lines) |-> strip(q_lines[i])]
        answers == [i \in 1..Len(a_lines) |-> clean_response(strip(a_lines[i]))]
    IN  IF f_q.kind = "missing" THEN Returned(<<>>)
        ELSE IF f_q.kind = "unreadable" THEN RaisedLoad("PermissionError")
        ELSE IF f_a.kind = "missing" THEN Returned(<<>>)
        ELSE IF f_a.kind = "unreadable" THEN RaisedLoad("PermissionError")
        ELSE IF f_q.kind = "undecodable" \/ f_a.kind = "undecodable"
             THEN RaisedLoad("UnicodeDecodeError")
        ELSE Returned(zip(questions, answers))

\* the body of load_qa_pairs on the file system fs: open() of the questions
\* file, then of the answers file, then the two list comprehensions; only
\* FileNotFoundError is caught
load_qa_pairs(fs, questions_path, answers_path) ==
    LET f_q == fs[questions_path]
        f_a == fs[answers_path]
        q_lines == SelectSeq(readlines(f_q), NonBlank)
        a_lines == SelectSeq(readlines(f_a), NonBlank)
        questions == [i \in 1..Len(q_lines) |-> strip(q_lines[i])]
        answers == [i \in 1..Len(a_lines) |-> clean_response(strip(a_lines[i]))]
    IN  IF f_q.kind = "missing" THEN Returned(<<>>)
        ELSE IF f_q.kind = "unreadable" THEN RaisedLoad("PermissionError")
        ELSE IF f_a.kind = "missing" THEN Returned(<<>>)
        ELSE IF f_a.kind = "unreadable" THEN RaisedLoad("PermissionError")
        ELSE IF f_q.kind = "undecodable" \/ f_a.kind = "undecodable"
             THEN RaisedLoad("UnicodeDecodeError")
        ELSE Returned(zip(questions, answers))

-----------------------------------------------------------------------------
\* difflib.SequenceMatcher(None, a, b).ratio() for texts shorter than 200
\* characters (no junk, and the automatic junk heuristic is inactive).  The
\* program computes the ratio as a float; it is kept as an exact fraction
\* here.  For texts of these lengths the correctly rounded quotient compares
\* with 0.95, 0.6 and 0.4 and with another such quotient as the fractions do.

RECURSIVE common_len(_, _, _, _)
\* length of the longest common run of a from i and of b from j
common_len(a, b, i, j) ==
    IF i <= Len(a) /\ j <= Len(b) /\ a[i] = b[j]
    THEN 1 + common_len(a, b, i + 1, j + 1)
    ELSE 0

\* the length of the common run at every pair of positions of a and b
run_lengths(a, b) ==
    [p \in (1..Len(a)) \X (1..Len(b)) |-> common_len(a, b, p[1], p[2])]

\* the length of the longest run
longest_run(run, limit) ==
    CHOOSE n \in 0..limit :
       /\ \E p \in DOMAIN run : run[p] = n
       /\ \A p \in DOMAIN run : run[p] <= n

\* of the runs of length k the one starting earliest in a, and of those the
\* one starting earliest in b
earliest_run(run, k) ==
    CHOOSE p \in DOMAIN run :
       /\ run[p] = k
       /\ \A r \in DOMAIN run :
             run[r] = k => (p[1] < r[1] \/ (p[1] = r[1] /\ p[2] <= r[2]))

block_of(p, k) == [i |-> p[1], j |-> p[2], k |-> k]

longest_block(run, k) == block_of(earliest_run(run, k), k)

longest_in(run, limit) == longest_block(run, longest_run(run, limit))

\* find_longest_match: the longest matching block of two non-empty texts
find_longest_match(a, b) == longest_in(run_lengths(a, b), Len(a))

RECURSIVE matches(_, _)
\* the size of block m and of the blocks to its left and to its right
matches_around(a, b, m) ==
    IF m.k = 0 THEN 0
    ELSE m.k + matches(SubSeq(a, 1, m.i - 1), SubSeq(b, 1, m.j - 1))
             + matches(SubSeq(a, m.i + m.k, Len(a)),
                       SubSeq(b, m.j + m.k, Len(b)))

\* get_matching_blocks: total size of the blocks, the longest block first and
\* then the blocks of the texts to its left and to its right
matches(a, b) ==
    IF a = <<>> \/ b = <<>> THEN 0
    ELSE matches_around(a, b, find_longest_match(a, b))

\* ratio(): 2.0 * matches / (len(a) + len(b)), and 1.0 for two empty texts,
\* kept as an exact fraction
ratio(a, b) ==
    IF Len(a) + Len(b) = 0 THEN [num |-> 1, den |-> 1]
    ELSE [num |-> 2 * matches(a, b), den |-> Len(a) + Len(b)]

\* comparisons of scores
Greater(x, y) == x.num * y.den > y.num * x.den

AtLeast(x, y) == x.num * y.den >= y.num * x.den

ZERO_SCORE == [num |-> 0, den |-> 1]

-----------------------------------------------------------------------------
\* The matcher

\* the score the loop computes for one stored question
current_score(user_question, question) ==
    ratio(strip(lower(user_question)), strip(lower(question)))

Match(question, answer, score) ==
    [match |-> question, answer |-> answer, score |-> score]

EMPTY_MATCH == Match(<<>>, <<>>, ZERO_SCORE)

RECURSIVE scan(_, _, _, _)

\* one pass of the loop without its early exit
step_no_break(user_question, qa_pairs, i, best, question, answer, score) ==
    IF Greater(score, best.score)
    THEN scan(user_question, qa_pairs, i + 1, Match(question, answer, score))
    ELSE scan(user_question, qa_pairs, i + 1, best)

\* one pass of the loop replacing the best match on an equal score too
step_last_tie(user_question, qa_pairs, i, best, question, answer, score) ==
    IF AtLeast(score, best.score)
    THEN IF AtLeast(score, PERFECT_MATCH)
         THEN Match(question, answer, score)
         ELSE scan(user_question, qa_pairs, i + 1, Match(question, answer, score))
    ELSE scan(user_question, qa_pairs, i + 1, best)

\* one pass of the for loop of find_best_match_extended, on pair i with the
\* score computed for it
step(user_question, qa_pairs, i, best, question, answer, score) ==
    IF Greater(score, best.score)
    THEN IF AtLeast(score, PERFECT_MATCH)
         THEN Match(question, answer, score)
         ELSE scan(user_question, qa_pairs, i + 1, Match(question, answer, score))
    ELSE scan(user_question, qa_pairs, i + 1, best)

\* the for loop of find_best_match_extended from pair i on, best so far
scan(user_question, qa_pairs, i, best) ==
    IF i > Len(qa_pairs) THEN best
    ELSE step(user_question, qa_pairs, i, best, qa_pairs[i][1], qa_pairs[i][2],
              current_score(user_question, qa_pairs[i][1]))

find_best_match_extended(user_question, qa_pairs) ==
    IF qa_pairs = <<>> THEN EMPTY_MATCH
    ELSE scan(user_question, qa_pairs, 1, EMPTY_MATCH)

-----------------------------------------------------------------------------
\* functools.lru_cache(maxsize): a sequence of entries, least recently used
\* first

cache_has(cache, key) == \E i \in 1..Len(cache) : cache[i].key = key

cache_index(cache, key) == CHOOSE i \in 1..Len(cache) : cache[i].key = key

cache_get(cache, key) == cache[cache_index(cache, key)].value

\* a hit makes the entry the most recently used one
cache_hit(cache, key) ==
    LET i == cache_index(cache, key)
    IN  SubSeq(cache, 1, i - 1) \o SubSeq(cache, i + 1, Len(cache)) \o <<cache[i]>>

\* a cache that holds one entry less than maxsize
cache_store_one_less(cache, key, value, maxsize) ==
    IF Len(cache) >= maxsize - 1
    THEN Tail(cache) \o <<[key |-> key, value |-> value]>>
    ELSE Append(cache, [key |-> key, value |-> value])

\* a miss stores the result, evicting the least recently used entry of a full
\* cache
cache_store(cache, key, value, maxsize) ==
    LET entry == [key |-> key, value |-> value]
    IN  IF Len(cache) >= maxsize
        THEN Tail(cache) \o <<entry>>
        ELSE Append(cache, entry)

\* a call of the cached load_qa_pairs that found no entry: ret is what the
\* body did; a call that raises stores nothing
load_miss(cache, key, ret) ==
    [cache |-> IF ret.kind = "return"
               THEN cache_store(cache, key, ret.pairs, CACHE_SIZE)
               ELSE cache,
     hit |-> FALSE, ret |-> ret]

\* a call that found an entry
load_hit(cache, key) ==
    [cache |-> cache_hit(cache, key), hit |-> TRUE,
     ret |-> Returned(cache_get(cache, key))]

\* load_qa_pairs without its cache
uncached_load_qa_pairs(cache, fs, questions_path, answers_path) ==
    load_miss(cache, <<questions_path, answers_path>>,
              load_qa_pairs(fs, questions_path, answers_path))

\* load_qa_pairs behind @lru_cache(maxsize=CACHE_SIZE), keyed by the two
\* paths
cached_load_qa_pairs(cache, fs, questions_path, answers_path) ==
    IF cache_has(cache, <<questions_path, answers_path>>)
    THEN load_hit(cache, <<questions_path, answers_path>>)
    ELSE load_miss(cache, <<questions_path, answers_path>>,
                   load_qa_pairs(fs, questions_path, answers_path))

-----------------------------------------------------------------------------
\* The generative API and the response generator

\* what openai.ChatCompletion.create does: it returns a completion with the
\* given text, or it raises an exception
ApiOk(content) == [kind |-> "ok", content |-> content]

ApiError == [kind |-> "error", content |-> <<>>]

\* the body of get_api_response
get_api_response(messages, api) ==
    IF api.kind = "ok" THEN clean_response(api.content) ELSE DEFAULT_RESPONSE

\* a call of the cached get_api_response that found no entry: a request was
\* sent and ret is what the body returned
api_miss(cache, messages, api, ret) ==
    [cache |-> cache_store(cache, messages, ret, CACHE_SIZE),
     hit |-> FALSE, error |-> api.kind = "error", ret |-> ret]

\* a call that found an entry: no request was sent
api_hit(cache, messages) ==
    [cache |-> cache_hit(cache, messages), hit |-> TRUE, error |-> FALSE,
     ret |-> cache_get(cache, messages)]

\* get_api_response behind @lru_cache(maxsize=CACHE_SIZE), keyed by the
\* message tuple
cached_get_api_response(cache, messages, api) ==
    IF cache_has(cache, messages)
    THEN api_hit(cache, messages)
    ELSE api_miss(cache, messages, api, get_api_response(messages, api))

\* the message tuple generate_smart_response builds
build_messages(user_question, matched_question, matched_answer) ==
    << <<"system", SYSTEM_PROMPT>>,
       <<"user", MSG_QUESTION \o user_question
                 \o MSG_SIMILAR \o matched_question
                 \o MSG_ANSWER \o matched_answer
                 \o MSG_INSTRUCTION>> >>

\* the partial band: the hedged text around the result r of the call
\* get_api_response(messages)
partial_response(messages, r) ==
    [text |-> HEDGE_PREFIX \o r.ret, cache |-> r.cache,
     api |-> <<[messages |-> messages, hit |-> r.hit, error |-> r.error,
               ret |-> r.ret]>>]

call_api(cache, messages, api) ==
    partial_response(messages, cached_get_api_response(cache, messages, api))

\* generate_smart_response: the text it returns, the API cache it leaves and
\* the call of get_api_response it made, if any
generate_smart_response(cache, user_question, matched_question, matched_answer, similarity_score, api) ==
    IF AtLeast(similarity_score, SIMILARITY_GOOD)
    THEN [text |-> matched_answer, cache |-> cache, api |-> <<>>]
    ELSE IF AtLeast(similarity_score, SIMILARITY_PARTIAL)
    THEN call_api(cache,
                  build_messages(user_question, matched_question, matched_answer),
                  api)
    ELSE [text |-> DEFAULT_RESPONSE, cache |-> cache, api |-> <<>>]

-----------------------------------------------------------------------------
\* The facade

ReturnedText(text) == [kind |-> "return", text |-> text, exc |-> ""]

RaisedError(exc) == [kind |-> "raise", text |-> <<>>, exc |-> exc]

\* the record of one call of ask_assistant: its arguments, the call of
\* load_qa_pairs it made (load), the match it found (found), the call of
\* get_api_response it made (api) and how it ended (ret)
Call(user_question, questions_file, answers_file, load, found, api, ret) ==
    [user_question |-> user_question, questions_file |-> questions_file,
     answers_file |-> answers_file, load |-> load, found |-> found,
     api |-> api, ret |-> ret]

\* the end of a call: the caches it leaves and its record
Outcome(lcache, acache, call) ==
    [load_cache |-> lcache, api_cache |-> acache, call |-> call]

\* ask_assistant once generate_smart_response has returned g
answered(acache, uq, qf, af, l, m, g) ==
    Outcome(l.cache, g.cache,
            Call(uq, qf, af, <<[hit |-> l.hit, ret |-> l.ret]>>, <<m>>, g.api,
                 ReturnedText(g.text)))

\* ask_assistant once find_best_match_extended has returned m
matched(acache, uq, qf, af, api, l, m) ==
    IF m.answer = <<>>
    THEN Outcome(l.cache, acache,
                 Call(uq, qf, af, <<[hit |-> l.hit, ret |-> l.ret]>>, <<m>>, <<>>,
                      ReturnedText(DEFAULT_RESPONSE)))
    ELSE answered(acache, uq, qf, af, l, m,
                  generate_smart_response(acache, uq, m.match, m.answer,
                                          m.score, api))

\* ask_assistant once load_qa_pairs has ended as l: its exception leaves
\* ask_assistant too
loaded(acache, uq, qf, af, api, l) ==
    IF l.ret.kind = "raise"
    THEN Outcome(l.cache, acache,
                 Call(uq, qf, af, <<[hit |-> l.hit, ret |-> l.ret]>>, <<>>, <<>>,
                      RaisedError(l.ret.exc)))
    ELSE matched(acache, uq, qf, af, api, l,
                 find_best_match_extended(uq, l.ret.pairs))

\* ask_assistant: the call record and the two caches it leaves
ask_assistant(fs, lcache, acache, user_question, questions_file, answers_file, api) ==
    IF strip(user_question) = <<>>
    THEN Outcome(lcache, acache,
                 Call(user_question, questions_file, answers_file, <<>>, <<>>,
                      <<>>, ReturnedText(EMPTY_QUESTION_RESPONSE)))
    ELSE IF ~should_process(user_question)
    THEN Outcome(lcache, acache,
                 Call(user_question, questions_file, answers_file, <<>>, <<>>,
                      <<>>, ReturnedText(DEFAULT_RESPONSE)))
    ELSE loaded(acache, user_question, questions_file, answers_file, api,
                cached_load_qa_pairs(lcache, fs, questions_file, answers_file))

-----------------------------------------------------------------------------
\* The assistant in use: calls of ask_assistant interleaved with changes made
\* to the knowledge files from outside

\* bounds of the model
MaxCalls == 3

MaxEdits == 1

\* a path is a directory number and a file name; these are the default file
\* names of ask_assistant
QuestionsPath(dir) == <<dir, "knowledge.txt">>

AnswersPath(dir) == <<dir, "knowledge1.txt">>

\* two versions of each knowledge file
QUESTIONS_1 ==
    << <<"a", "b", "c", "d", "e", "f", "g", "h">>,
       <<"s", "t", "u", "v">> >>

QUESTIONS_2 ==
    << <<"a", "b", "c", "d", "w", "x", "y", "z">> >>

ANSWERS_1 ==
    << <<"1", ".", " ", "o", "n", "e">>,
       <<"t", "w", "o">> >>

ANSWERS_2 ==
    << <<"n", "e", "w">> >>

QuestionFileStates ==
    {Missing, Unreadable, TextFile(QUESTIONS_1), TextFile(QUESTIONS_2)}

AnswerFileStates ==
    {Missing, Undecodable, TextFile(ANSWERS_1), TextFile(ANSWERS_2)}

\* the questions asked: they score 1.0, 0.5 and 0.0 against "abcdefgh"
UserQuestions ==
    { <<"a", "b", "c", "d", "e", "f", "g", "h">>,
      <<"a", "b", "c", "d", "w", "x", "y", "z">>,
      <<"w", "x", "y", "z">> }

\* the behaviours of the generative API
ApiOutcomes == {ApiOk(<<"1", ".", " ", "o", "k">>), ApiError}

Init ==
    /\ \E fq \in QuestionFileStates, fa \in AnswerFileStates :
          files = (QuestionsPath(0) :> fq @@ AnswersPath(0) :> fa)
    /\ load_cache = <<>>
    /\ api_cache = <<>>
    /\ trace = <<>>
    /\ edits = 0
    /\ input = <<>>
    /\ output = <<>>

\* the state after a call that ended as r
Finish(r) ==
    /\ load_cache' = r.load_cache
    /\ api_cache' = r.api_cache
    /\ trace' = Append(trace, r.call)

\* one call ask_assistant(user_question, questions_file, answers_file) during
\* which the API, if called, behaves as api
AskAssistant(user_question, questions_file, answers_file, api) ==
    /\ Finish(ask_assistant(files, load_cache, api_cache, user_question,
                            questions_file, answers_file, api))
    /\ UNCHANGED <<files, edits, output>>

\* a file is edited, created, deleted or made unreadable from outside
EditFile(path, f) ==
    /\ edits < MaxEdits
    /\ files[path] # f
    /\ files' = [files EXCEPT ![path] = f]
    /\ edits' = edits + 1
    /\ UNCHANGED <<load_cache, api_cache, trace, input, output>>

Ask ==
    /\ Len(trace) < MaxCalls
    /\ \E q \in UserQuestions, api \in ApiOutcomes :
          AskAssistant(q, QuestionsPath(0), AnswersPath(0), api)
    /\ UNCHANGED input

EditQuestions == \E f \in QuestionFileStates : EditFile(QuestionsPath(0), f)

EditAnswers == \E f \in AnswerFileStates : EditFile(AnswersPath(0), f)

Next == Ask \/ EditQuestions \/ EditAnswers

Spec == Init /\ [][Next]_vars

-----------------------------------------------------------------------------
\* A single call of ask_assistant on a knowledge base and a question drawn
\* from larger sets

MaxOnceLines == 2

WHAT_ARE_YOUR_HOURS ==
    <<"w", "h", "a", "t", " ", "a", "r", "e", " ", "y", "o", "u", "r", " ",
      "h", "o", "u", "r", "s">>

\* stored questions: two that differ in case only, one of three characters,
\* a greeting, and two that differ in a final "?" only (score 38/39)
OnceStored ==
    { <<"A", "b", "c", "d", "e", "f", "g", "h">>,
      <<"a", "b", "c", "d", "e", "f", "g", "h">>,
      <<"a", "b", "?">>,
      <<"p", "r", "i", "v", "e", "t">>,
      WHAT_ARE_YOUR_HOURS \o <<"?">>,
      WHAT_ARE_YOUR_HOURS }

ONCE_ANSWERS ==
    << <<"1", ".", " ", "o", "n", "e">>,
       <<"t", "w", "o">>,
       <<"t", "h", "r", "e", "e">> >>

\* every sequence of at most n elements of S
SeqsUpTo(S, n) == UNION {[1..m -> S] : m \in 0..n}

OnceQuestionFiles ==
    {Missing, Unreadable} \cup {TextFile(l) : l \in SeqsUpTo(OnceStored, MaxOnceLines)}

OnceAnswerFiles == {Missing, Undecodable, TextFile(ONCE_ANSWERS)}

\* questions: empty; blank; of trimmed length 1, 2 and 3; of trimmed length 2
\* and lower-cased length 4; greetings; stored questions; questions scoring
\* 0.6, 0.5, 0.4 and 0.125 against "abcdefgh"; a question sharing no
\* character with any stored question
OnceQuestions ==
    { <<>>,
      <<" ", "\n">>,
      <<"a">>,
      <<" ", "a", "b", " ">>,
      <<"a", "b", "?">>,
      <<"U+0130", "U+0130">>,
      <<"P", "r", "i", "v", "e", "t">>,
      <<"p", "r", "i", "v", "e", "t">>,
      <<"a", "b", "c", "d", "e", "f", "g", "h">>,
      WHAT_ARE_YOUR_HOURS,
      <<"a", "b", "c", "d", "e", "f", "m", "n", "k", "x", "y", "z">>,
      <<"a", "b", "c", "d", "w", "x", "y", "z">>,
      <<"a", "b", "c", "w", "x", "y", "z">>,
      <<"a", "b", "m", "n", "k", "x", "y", "z">>,
      <<"z", "z", "z", "z">> }

InitOnce ==
    /\ \E fq \in OnceQuestionFiles, fa \in OnceAnswerFiles :
          files = (QuestionsPath(0) :> fq @@ AnswersPath(0) :> fa)
    /\ load_cache = <<>>
    /\ api_cache = <<>>
    /\ trace = <<>>
    /\ edits = 0
    /\ input \in OnceQuestions
    /\ output = <<>>

AskOnce ==
    /\ trace = <<>>
    /\ \E api \in ApiOutcomes :
          AskAssistant(input, QuestionsPath(0), AnswersPath(0), api)
    /\ UNCHANGED input

NextOnce == AskOnce

SpecOnce == InitOnce /\ [][NextOnce]_vars

-----------------------------------------------------------------------------
\* load_qa_pairs called on files drawn from larger sets

MaxLineLen == 6

MaxLines == 3

\* Strings(S, n): every text of at most n characters of S
Strings(S, n) == SeqsUpTo(S, n)

CONTACT_SUPPORT ==
    <<"1", ".", " ", "C", "o", "n", "t", "a", "c", "t", " ", "s", "u", "p",
      "p", "o", "r", "t", ".">>

SPECIAL_CODE ==
    <<"4", "2", ".", " ", "S", "p", "e", "c", "i", "a", "l", " ", "c", "o",
      "d", "e">>

TEN_TEXT == <<"1", "0", ".", " ", "T", "e", "x", "t">>

\* one-line answer files: four examples and every short line of digits,
\* dots, blanks and letters
FOUR_DIGITS == <<"1", "2", "3", "4", ".", " ", "x">>

LoadAnswerLines ==
    {CONTACT_SUPPORT, SPECIAL_CODE, TEN_TEXT, FOUR_DIGITS}
        \cup Strings({"1", ".", " ", "x"}, MaxLineLen)

\* files of several lines, some of them blank
LoadManyQuestions == SeqsUpTo({<<>>, <<" ">>, <<"q">>, <<" ", "r">>}, MaxLines)

LoadManyAnswers == SeqsUpTo({<<>>, <<"a">>, <<"2", ".", " ", "b">>}, MaxLines)

InitLoad ==
    /\ \/ \E a \in LoadAnswerLines :
             files = (QuestionsPath(0) :> TextFile(<< <<"q">> >>)
                        @@ AnswersPath(0) :> TextFile(<<a>>))
       \/ \E qs \in LoadManyQuestions, as \in LoadManyAnswers :
             files = (QuestionsPath(0) :> TextFile(qs)
                        @@ AnswersPath(0) :> TextFile(as))
    /\ load_cache = <<>>
    /\ api_cache = <<>>
    /\ trace = <<>>
    /\ edits = 0
    /\ input = <<>>
    /\ output = <<>>

\* the state after a call of load_qa_pairs that ended as l
FinishLoad(l) ==
    /\ load_cache' = l.cache
    /\ output' = <<l.ret>>

\* one call load_qa_pairs(questions_path, answers_path)
LoadQaPairs ==
    /\ output = <<>>
    /\ FinishLoad(cached_load_qa_pairs(load_cache, files, QuestionsPath(0),
                                       AnswersPath(0)))
    /\ UNCHANGED <<files, api_cache, trace, edits, input>>

NextLoad == LoadQaPairs

SpecLoad == InitLoad /\ [][NextLoad]_vars

-----------------------------------------------------------------------------
\* find_best_match_extended called on arguments drawn from larger sets

MaxPairs == 2

\* stored questions: "abcd", the same up to case and blanks, one scoring 0.5
\* and one scoring 0.0 against it, a blank one, and three long ones scoring
\* 1.0, 0.95 and 36/38 against "what are your hours?"
MatchStored ==
    { <<"a", "b", "c", "d">>,
      <<"A", "B", "C", "D", " ">>,
      <<"a", "b", "x", "y">>,
      <<"w", "x", "y", "z">>,
      <<" ">>,
      WHAT_ARE_YOUR_HOURS \o <<"?">>,
      WHAT_ARE_YOUR_HOURS \o <<"!">>,
      SubSeq(WHAT_ARE_YOUR_HOURS, 1, 18) }

MatchQuestions ==
    { <<>>,
      <<"a", "b", "c", "d">>,
      <<"w", "w", "a", "b">>,
      <<"k", "k", "k", "k">>,
      WHAT_ARE_YOUR_HOURS \o <<"?">> }

\* the answer stored at position i
MatchAnswer(i) == <<"a", "n", "s", "w", "e", "r", " ">> \o <<ToString(i)>>

MatchBases ==
    { [i \in 1..Len(qs) |-> <<qs[i], MatchAnswer(i)>>] :
         qs \in SeqsUpTo(MatchStored, MaxPairs) }

InitMatch ==
    /\ files = <<>>
    /\ load_cache = <<>>
    /\ api_cache = <<>>
    /\ trace = <<>>
    /\ edits = 0
    /\ input \in [user_question : MatchQuestions, qa_pairs : MatchBases]
    /\ output = <<>>

FindBestMatch ==
    /\ output = <<>>
    /\ output' = <<find_best_match_extended(input.user_question, input.qa_pairs)>>
    /\ UNCHANGED <<files, load_cache, api_cache, trace, edits, input>>

NextMatch == FindBestMatch

SpecMatch == InitMatch /\ [][NextMatch]_vars

-----------------------------------------------------------------------------
\* A long session: a first question, then up to MaxOthers other questions, all
\* different and all in the partial band, then the first question again

MaxOthers == 256

EVICT_STORED == <<"a", "a", "a", "a", "b", "b", "b", "b", "b">>

EVICT_ANSWER == <<"a", "n", "s">>

EVICT_LETTERS == <<"c", "d", "e", "f">>

\* question number n: "aaaa" and the five base-4 digits of n written with the
\* letters c to f; it scores 8/18 against the stored question
EvictQuestion(n) ==
    <<"a", "a", "a", "a">>
        \o [d \in 1..5 |-> EVICT_LETTERS[((n \div (4 ^ (d - 1))) % 4) + 1]]

\* the session is over once the first question has been asked again
EvictDone ==
    /\ Len(trace) > 1
    /\ trace[Len(trace)].user_question = EvictQuestion(0)

InitEvict ==
    /\ files = (QuestionsPath(0) :> TextFile(<<EVICT_STORED>>)
                  @@ AnswersPath(0) :> TextFile(<<EVICT_ANSWER>>))
    /\ load_cache = <<>>
    /\ api_cache = <<>>
    /\ trace = <<>>
    /\ edits = 0
    /\ input = <<>>
    /\ output = <<>>

\* the next question not asked before; the API answers it
AskFresh ==
    /\ ~EvictDone
    /\ Len(trace) <= MaxOthers
    /\ \E api \in IF trace = <<>> THEN ApiOutcomes ELSE {ApiOk(<<"o", "k">>)} :
          AskAssistant(EvictQuestion(Len(trace)), QuestionsPath(0),
                       AnswersPath(0), api)
    /\ UNCHANGED input

\* the first question once more
AskAgain ==
    /\ ~EvictDone
    /\ trace # <<>>
    /\ \E api \in ApiOutcomes :
          AskAssistant(EvictQuestion(0), QuestionsPath(0), AnswersPath(0), api)
    /\ UNCHANGED input

NextEvict == AskFresh \/ AskAgain

SpecEvict == InitEvict /\ [][NextEvict]_vars

-----------------------------------------------------------------------------
\* Properties of a single call (SpecOnce; the files do not change there, so
\* the files of the state are the files the call saw)

\* the knowledge base on disk for call c
BaseOf(c) ==
    load_qa_pairs(files, trace[c].questions_file, trace[c].answers_file)

\* the score of call c's question against the i-th stored question
ScoreOf(c, i) == current_score(trace[c].user_question, BaseOf(c).pairs[i][1])

\* the positions of the stored questions scoring at least 0.95 for call c
NearPerfect(c) ==
    {i \in 1..Len(BaseOf(c).pairs) : ScoreOf(c, i).num * 20 >= 19 * ScoreOf(c, i).den}

\* C1 as stated: a question equal to a stored question scores 1.0 against it
\* and ask_assistant returns the answer stored at that position without a
\* call of the API
C1_AsStated ==
    \A c \in 1..Len(trace) :
       BaseOf(c).kind = "return" =>
          \A i \in 1..Len(BaseOf(c).pairs) :
             BaseOf(c).pairs[i][1] = trace[c].user_question =>
                /\ ScoreOf(c, i).num = ScoreOf(c, i).den
                /\ trace[c].ret = ReturnedText(BaseOf(c).pairs[i][2])
                /\ trace[c].api = <<>>

\* C1 amended: a question that passes the pre-filter and equals a stored
\* question scores 1.0 against it, and ask_assistant returns, without a call
\* of the API, the answer of the first stored question scoring at least 0.95
C1_ExactMatch ==
    \A c \in 1..Len(trace) :
       (BaseOf(c).kind = "return" /\ should_process(trace[c].user_question)) =>
          \A i \in 1..Len(BaseOf(c).pairs) :
             BaseOf(c).pairs[i][1] = trace[c].user_question =>
                /\ ScoreOf(c, i).num = ScoreOf(c, i).den
                /\ \E f \in NearPerfect(c) :
                      /\ \A g \in NearPerfect(c) : f <= g
                      /\ trace[c].ret = ReturnedText(BaseOf(c).pairs[f][2])
                /\ trace[c].api = <<>>

\* a call whose question equals the second stored question while the first
\* one scores at least 0.95 too; the first answer was returned
C1_Witness ==
    /\ Len(trace) = 1
    /\ BaseOf(1).kind = "return"
    /\ Len(BaseOf(1).pairs) = 2
    /\ BaseOf(1).pairs[2][1] = trace[1].user_question
    /\ BaseOf(1).pairs[1][1] # trace[1].user_question
    /\ NearPerfect(1) = {1, 2}
    /\ trace[1].ret = ReturnedText(BaseOf(1).pairs[1][2])

\* C2 as stated: an input of trimmed length 0 to 3 gets the default refusal
\* and neither load_qa_pairs nor the API is called
C2_AsStated ==
    \A c \in 1..Len(trace) :
       Len(strip(trace[c].user_question)) < 4 =>
          /\ trace[c].ret = ReturnedText(DEFAULT_RESPONSE)
          /\ trace[c].load = <<>>
          /\ trace[c].api = <<>>

\* C2 amended: an input whose length after trimming and lower-casing is 1, 2
\* or 3 gets the default refusal, an input that is empty after trimming gets
\* the prompt for a question, and in both cases neither load_qa_pairs nor the
\* API is called
C2_ShortInput ==
    \A c \in 1..Len(trace) :
       LET trimmed == strip(trace[c].user_question)
       IN  /\ Len(lower(trimmed)) \in 1..3 =>
                 /\ trace[c].ret = ReturnedText(DEFAULT_RESPONSE)
                 /\ trace[c].load = <<>>
                 /\ trace[c].api = <<>>
           /\ Len(trimmed) = 0 =>
                 /\ trace[c].ret = ReturnedText(EMPTY_QUESTION_RESPONSE)
                 /\ trace[c].load = <<>>
                 /\ trace[c].api = <<>>

\* a call with a question of trimmed length 3 on a knowledge base that holds
\* this very question
C2_Witness ==
    /\ Len(trace) = 1
    /\ Len(strip(trace[1].user_question)) = 3
    /\ BaseOf(1).kind = "return"
    /\ \E i \in 1..Len(BaseOf(1).pairs) :
          BaseOf(1).pairs[i][1] = strip(trace[1].user_question)
    /\ trace[1].ret = ReturnedText(DEFAULT_RESPONSE)

\* C3 as stated: when the score is in the partial band and the API call
\* fails, ask_assistant returns exactly the default refusal string
C3_AsStated ==
    \A c \in 1..Len(trace) :
       (/\ trace[c].api # <<>>
        /\ trace[c].api[1].error
        /\ trace[c].found[1].score.num * 5 >= 2 * trace[c].found[1].score.den
        /\ trace[c].found[1].score.num * 5 < 3 * trace[c].found[1].score.den)
          => trace[c].ret = ReturnedText(DEFAULT_RESPONSE)

\* C5: a question that passes the pre-filter and scores below 0.4 against
\* every question of the loaded knowledge base (an empty one included) gets
\* exactly the default refusal, and get_api_response is not called
C5_NoMatch ==
    \A c \in 1..Len(trace) :
       (/\ strip(trace[c].user_question) # <<>>
        /\ should_process(trace[c].user_question)
        /\ BaseOf(c).kind = "return"
        /\ \A i \in 1..Len(BaseOf(c).pairs) :
              ScoreOf(c, i).num * 5 < 2 * ScoreOf(c, i).den)
          => /\ trace[c].ret = ReturnedText(DEFAULT_RESPONSE)
             /\ trace[c].api = <<>>

\* a call on a knowledge base of two questions, the better of which scores
\* above 0.0 and below 0.4
C5_Witness ==
    /\ Len(trace) = 1
    /\ should_process(trace[1].user_question)
    /\ BaseOf(1).kind = "return"
    /\ Len(BaseOf(1).pairs) = 2
    /\ \A i \in 1..2 : ScoreOf(1, i).num * 5 < 2 * ScoreOf(1, i).den
    /\ \E i \in 1..2 : ScoreOf(1, i).num > 0
    /\ trace[1].found # <<>>
    /\ trace[1].found[1].answer # <<>>
    /\ trace[1].ret = ReturnedText(DEFAULT_RESPONSE)

\* C8 as stated: whatever the files and the API do, ask_assistant returns a
\* text and raises nothing
C8_AsStated ==
    \A c \in 1..Len(trace) : trace[c].ret.kind = "return"

-----------------------------------------------------------------------------
\* Properties of a session (Spec, SpecEvict)

\* the calls of ask_assistant that called load_qa_pairs, and their path pair
LoadCalls == {c \in 1..Len(trace) : trace[c].load # <<>>}

PathsOf(c) == <<trace[c].questions_file, trace[c].answers_file>>

\* the other path pairs loaded between calls i and j
PairsBetween(i, j) ==
    {PathsOf(k) : k \in {c \in LoadCalls : i < c /\ c < j /\ PathsOf(c) # PathsOf(i)}}

ApiCalls == {c \in 1..Len(trace) : trace[c].api # <<>>}

\* the triple of question, matched question and matched answer of a call
TripleOf(c) ==
    <<trace[c].user_question, trace[c].found[1].match, trace[c].found[1].answer>>

\* the earlier calls whose message tuple is that of call j
SameBefore(j) ==
    {i \in ApiCalls : i < j /\ trace[i].api[1].messages = trace[j].api[1].messages}

\* the latest of them
LastBefore(j) == CHOOSE i \in SameBefore(j) : \A k \in SameBefore(j) : k <= i

\* the other message tuples requested after call i and before call j
TuplesBetween(i, j) ==
    {trace[k].api[1].messages : k \in {c \in ApiCalls : i < c /\ c < j}}
       \ {trace[j].api[1].messages}

\* C4 as stated: a call whose triple is that of an earlier call sends no
\* request to the API and gets the result of the first call with that triple,
\* however many calls there were in between (stated of the latest call; as an
\* invariant it covers every call)
C4_AsStated ==
    (Len(trace) \in ApiCalls) =>
       \A i \in ApiCalls :
          (i < Len(trace) /\ TripleOf(i) = TripleOf(Len(trace))) =>
             /\ trace[Len(trace)].api[1].hit
             /\ trace[Len(trace)].api[1].ret = trace[i].api[1].ret

\* C4 amended: a call whose triple is that of an earlier call builds the
\* message tuple of that call; it sends no request and gets the memoized
\* result if fewer than 256 other tuples were requested since the tuple was
\* last requested, and it sends a request again otherwise (stated of the
\* latest call; as an invariant it covers every call)
C4_MemoizedUntilEvicted ==
    (Len(trace) \in ApiCalls) =>
       /\ \A i \in ApiCalls :
             (i < Len(trace) /\ TripleOf(i) = TripleOf(Len(trace)))
                => i \in SameBefore(Len(trace))
       /\ SameBefore(Len(trace)) # {} =>
             IF Cardinality(TuplesBetween(LastBefore(Len(trace)), Len(trace))) < 256
             THEN /\ trace[Len(trace)].api[1].hit
                  /\ trace[Len(trace)].api[1].ret
                        = trace[LastBefore(Len(trace))].api[1].ret
             ELSE ~trace[Len(trace)].api[1].hit

\* the first question asked again after 255 other questions: the cache was
\* full and still held its entry
C4_Witness ==
    /\ Len(trace) = 257
    /\ trace[257].user_question = trace[1].user_question
    /\ Cardinality(TuplesBetween(1, 257)) = 255
    /\ trace[257].api[1].hit

-----------------------------------------------------------------------------
\* Properties of load_qa_pairs (SpecLoad)

QuestionLines == files[QuestionsPath(0)].lines

AnswerLines == files[AnswersPath(0)].lines

\* the call was made on files of one non-blank line each
OneLineLoaded ==
    /\ output # <<>>
    /\ Len(QuestionLines) = 1
    /\ Len(AnswerLines) = 1
    /\ strip(QuestionLines[1]) # <<>>
    /\ strip(AnswerLines[1]) # <<>>

\* the position of the "." of the first ". " of a, 0 if there is none in the
\* first five characters
DotPosition(a) ==
    IF \E k \in 1..4 : k < Len(a) /\ a[k] = "." /\ a[k + 1] = " "
    THEN CHOOSE k \in 1..4 :
            /\ k < Len(a) /\ a[k] = "." /\ a[k + 1] = " "
            /\ \A m \in 1..(k - 1) : ~(a[m] = "." /\ a[m + 1] = " ")
    ELSE 0

\* what C6 as stated says is stored for the trimmed answer line a
SingleDigitRule(a) ==
    IF Len(a) >= 3 /\ a[1] \in DIGITS /\ a[2] = "." /\ a[3] = " "
    THEN SubSeq(a, 4, Len(a))
    ELSE a

\* what C6 amended says is stored for the trimmed answer line a
FirstFiveRule(a) ==
    IF a # <<>> /\ a[1] \in DIGITS /\ DotPosition(a) # 0
    THEN SubSeq(a, DotPosition(a) + 2, Len(a))
    ELSE a

\* C6 as stated: the prefix is stripped only from a line that starts with one
\* digit followed by ". "; every other line is stored unchanged
C6_AsStated ==
    OneLineLoaded =>
       output[1].pairs[1][2] = SingleDigitRule(strip(AnswerLines[1]))

\* C6 amended: the text up to and including the first ". " is stripped from a
\* line that starts with a digit and has ". " within its first five
\* characters, so "42. Special code" is stored as "Special code" and
\* "10. Text" as "Text"; every other line, "1234. x" for one, is stored
\* unchanged
C6_FirstFive ==
    OneLineLoaded =>
       output[1].pairs[1][2] = FirstFiveRule(strip(AnswerLines[1]))

\* "42. Special code" was loaded
C6_Witness ==
    /\ OneLineLoaded
    /\ AnswerLines[1] = SPECIAL_CODE
    /\ output[1].pairs[1][2]
          = <<"S", "p", "e", "c", "i", "a", "l", " ", "c", "o", "d", "e">>

Smaller(m, n) == IF m < n THEN m ELSE n

\* the positions of the lines that are not blank
NonBlankAt(lines) == {k \in 1..Len(lines) : strip(lines[k]) # <<>>}

\* the position of the n-th line that is not blank
NthNonBlank(lines, n) ==
    CHOOSE k \in NonBlankAt(lines) :
       Cardinality({m \in NonBlankAt(lines) : m < k}) = n - 1

\* C9 as stated: the n-th line of the questions file is paired with the n-th
\* line of the answers file, and there are as many pairs as the shorter file
\* has lines
C9_AsStated ==
    output # <<>> =>
       /\ Len(output[1].pairs) = Smaller(Len(QuestionLines), Len(AnswerLines))
       /\ \A n \in 1..Len(output[1].pairs) :
             /\ n <= Smaller(Len(QuestionLines), Len(AnswerLines))
             /\ output[1].pairs[n][1] = strip(QuestionLines[n])
             /\ output[1].pairs[n][2] = FirstFiveRule(strip(AnswerLines[n]))

\* C9 amended: the n-th non-blank line of the questions file is paired with
\* the n-th non-blank line of the answers file, and there are as many pairs
\* as the file with fewer non-blank lines has of them
C9_NonBlankLines ==
    output # <<>> =>
       /\ Len(output[1].pairs)
             = Smaller(Cardinality(NonBlankAt(QuestionLines)),
                       Cardinality(NonBlankAt(AnswerLines)))
       /\ \A n \in 1..Len(output[1].pairs) :
             /\ output[1].pairs[n][1]
                   = strip(QuestionLines[NthNonBlank(QuestionLines, n)])
             /\ output[1].pairs[n][2]
                   = FirstFiveRule(strip(AnswerLines[NthNonBlank(AnswerLines, n)]))

\* files with a blank line before the last question, another one before the
\* last answer, and two pairs loaded from them
C9_Witness ==
    /\ output # <<>>
    /\ Len(output[1].pairs) = 2
    /\ Len(QuestionLines) = 3
    /\ Len(AnswerLines) = 3
    /\ NonBlankAt(QuestionLines) = {1, 3}
    /\ NonBlankAt(AnswerLines) = {2, 3}

-----------------------------------------------------------------------------
\* Properties of find_best_match_extended (SpecMatch)

\* the score of the i-th pair of the knowledge base
PairScore(i) == current_score(input.user_question, input.qa_pairs[i][1])

Positions == 1..Len(input.qa_pairs)

\* the positions scoring at least 0.95, and those with the highest score
PerfectAt == {i \in Positions : PairScore(i).num * 20 >= 19 * PairScore(i).den}

HighestAt ==
    {i \in Positions :
        \A k \in Positions :
           PairScore(i).num * PairScore(k).den >= PairScore(k).num * PairScore(i).den}

First(S) == CHOOSE i \in S : \A k \in S : i <= k

\* the pair the claim names
Chosen == IF PerfectAt # {} THEN First(PerfectAt) ELSE First(HighestAt)

\* the result is the pair at position i with its score
IsPair(r, i) ==
    /\ r.match = input.qa_pairs[i][1]
    /\ r.answer = input.qa_pairs[i][2]
    /\ r.score.num * PairScore(i).den = PairScore(i).num * r.score.den

\* C10 as stated: for a non-empty knowledge base the result is the first pair
\* scoring at least 0.95 if there is one and else the earliest pair with the
\* highest score, with the score of that pair; the empty match is returned
\* for the empty knowledge base only
C10_AsStated ==
    output # <<>> =>
       IF input.qa_pairs = <<>>
       THEN output[1] = EMPTY_MATCH
       ELSE IsPair(output[1], Chosen) /\ output[1] # EMPTY_MATCH

\* C10 amended: as stated when some pair scores above 0.0; when the knowledge
\* base is empty or every pair scores 0.0 the empty match is returned
C10_BestMatch ==
    output # <<>> =>
       IF \A i \in Positions : PairScore(i).num = 0
       THEN output[1] = EMPTY_MATCH
       ELSE IsPair(output[1], Chosen) /\ output[1] # EMPTY_MATCH

\* the first pair scores at least 0.95, the second one scores higher, and
\* the first one was returned
C10_Witness ==
    /\ output # <<>>
    /\ Len(input.qa_pairs) = 2
    /\ PerfectAt = {1, 2}
    /\ HighestAt = {2}
    /\ output[1].answer = input.qa_pairs[1][2]

====
